---- MODULE Spec2Model ----
(***************************************************************************)
(* Model of scripts/periodic_runner.py: the PeriodicRunner supervisor,     *)
(* its signal handler and the main() driver.                               *)
(*                                                                         *)
(* The main flow is one process whose position is pc; the signal handler   *)
(* is an asynchronous action that may run between any two steps of the     *)
(* main flow once signal.signal() has registered it.  The executor         *)
(* (subprocess.run) and the sink (_print_summary's output) are             *)
(* nondeterministic: an execution ends with exit status 0, a non-zero      *)
(* exit status or an exception, and a status report is either written or   *)
(* raises.  The progress lines printed outside _print_summary are not     *)
(* part of the state and are taken to succeed.  The class is entered       *)
(* either through main() ("cli") or by constructing PeriodicRunner         *)
(* directly and calling run() ("api").  main()'s except KeyboardInterrupt  *)
(* branch has no action: once __init__ has replaced the SIGINT handler no  *)
(* KeyboardInterrupt is raised inside run().                               *)
(***************************************************************************)
EXTENDS Integers, Sequences, FiniteSets, TLC

\* ---------------------------------------------------------------- bounds
MaxNegInterval == 1
MaxInterval == 3
MaxExec == 3
MaxSignals == 2

\* ------------------------------------------------------------- constants
SIGINT == 2
SIGTERM == 15
Signals == {SIGINT, SIGTERM}
TickSeconds == 1

Commands == {"exit 0", "exit 1"}
Intervals == (0 - MaxNegInterval)..MaxInterval
Entries == {"cli", "api"}
Outcomes == {"zero", "nonzero", "exception"}
NoCommand == ""
NoTime == "unset"
ConstructionTime == "t0"

LoopPcs == {"loop_guard", "increment", "execute", "record", "check",
            "report", "sleep_guard", "sleeping"}
TerminalPcs == {"done", "exit1", "killed"}

VARIABLES
    entry,              \* how the class is driven: "cli" (main) or "api"
    args,               \* the (command, interval) given by the caller
    pc,                 \* position of the main flow
    command,            \* self.command
    interval,           \* self.interval
    start_time,         \* self.start_time
    execution_count,    \* self.execution_count
    success_count,      \* self.success_count
    failure_count,      \* self.failure_count
    running,            \* self.running
    handler_installed,  \* signal.signal(...) has registered _signal_handler
    outcome,            \* how the last subprocess.run ended
    success,            \* local of run(): result of _execute_command()
    sleep_remaining,    \* local of run()
    reports,            \* status reports written to the sink, in order
    exit_code,          \* process exit status, once terminated
    error,              \* what ended the process abnormally
    signals,            \* history: number of handler invocations
    stop_pc,            \* history: pc at the first handler invocation
    ticks_since_stop,   \* history: sleep ticks completed since then
    execs_since_stop    \* history: executions started since then

\* State of scripts/build_nuget.py (a separate program).
VARIABLES
    b_pc,               \* position inside build_nuget_packages
    version,            \* argument of build_nuget_packages
    script_dir,         \* name of the directory that holds the script
    repo_root,          \* local of build_nuget_packages
    core_exists,        \* core_project.exists()
    sdk_exists,         \* sdk_project.exists()
    mkdir_ok,           \* output_dir.mkdir(...) does not raise
    invoked,            \* pack commands passed to run_command, in order
    cmd_results,        \* how each of them ended
    returned            \* result of build_nuget_packages

build == <<b_pc, version, script_dir, repo_root, core_exists, sdk_exists,
           mkdir_ok, invoked, cmd_results, returned>>

config == <<entry, args, command, interval, start_time>>
counters == <<execution_count, success_count, failure_count>>
locals == <<outcome, success, sleep_remaining>>
history == <<signals, stop_pc, ticks_since_stop, execs_since_stop>>
vars == <<entry, args, pc, command, interval, start_time, execution_count, success_count,
          failure_count, running, handler_installed, outcome, success,
          sleep_remaining, reports, exit_code, error, signals, stop_pc,
          ticks_since_stop, execs_since_stop, b_pc, version, script_dir,
          repo_root, core_exists, sdk_exists, mkdir_ok, invoked, cmd_results,
          returned>>

Min(a, b) == IF a < b THEN a ELSE b

Stopped == stop_pc # "none"

\* ------------------------------------------------------------------ Init
\* build_nuget.py is not the program that runs.
BuildIdle ==
    /\ b_pc = "idle"
    /\ version = ""
    /\ script_dir = ""
    /\ repo_root = ""
    /\ core_exists = FALSE
    /\ sdk_exists = FALSE
    /\ mkdir_ok = FALSE
    /\ invoked = <<>>
    /\ cmd_results = <<>>
    /\ returned = "none"

Init ==
    /\ BuildIdle
    /\ entry \in Entries
    /\ args \in [command : Commands, interval : Intervals]
    /\ pc = IF entry = "cli" THEN "main" ELSE "construct"
    /\ command = NoCommand
    /\ interval = 0
    /\ start_time = NoTime
    /\ execution_count = 0
    /\ success_count = 0
    /\ failure_count = 0
    /\ running = FALSE
    /\ handler_installed = FALSE
    /\ outcome = "none"
    /\ success = FALSE
    /\ sleep_remaining = 0
    /\ reports = <<>>
    /\ exit_code = 0
    /\ error = "none"
    /\ signals = 0
    /\ stop_pc = "none"
    /\ ticks_since_stop = 0
    /\ execs_since_stop = 0

\* ------------------------------------------------------------- main()
\* Variant of IntervalRejected: the check written as "< 0".
IntervalRejected_OnlyNegative(i) == i < 0

\* main, lines 164-166: the interval check of the driver.
IntervalRejected(i) == i <= 0

\* main, lines 162-168: parse, validate, then go on to construct.
main ==
    /\ pc = "main"
    /\ IF IntervalRejected(args.interval)
          THEN /\ pc' = "exit1"
               /\ exit_code' = 1
               /\ error' = "usage"
          ELSE /\ pc' = "construct"
               /\ UNCHANGED <<exit_code, error>>
    /\ UNCHANGED <<config, counters, running, handler_installed, locals,
                   reports, history>>
    /\ UNCHANGED build

\* A SIGINT/SIGTERM that arrives before signal.signal() has run (lines
\* 33-34) gets Python's default disposition: the process dies.
DefaultSignal(signum) ==
    /\ pc \in {"main", "construct"}
    /\ ~handler_installed
    /\ pc' = "killed"
    /\ exit_code' = 0 - signum
    /\ error' = "signal"
    /\ UNCHANGED <<config, counters, running, handler_installed, locals,
                   reports, history>>
    /\ UNCHANGED build

\* PeriodicRunner.__init__, lines 23-34.
PeriodicRunner__init__ ==
    /\ pc = "construct"
    /\ command' = args.command
    /\ interval' = args.interval
    /\ start_time' = ConstructionTime
    /\ execution_count' = 0
    /\ success_count' = 0
    /\ failure_count' = 0
    /\ running' = TRUE
    /\ handler_installed' = TRUE
    /\ pc' = "run"
    /\ UNCHANGED <<entry, args, locals, reports, exit_code, error, history>>
    /\ UNCHANGED build

\* ------------------------------------------------------ _signal_handler
\* Variant of _signal_handler: the handler abandons an execution in flight
\* and goes straight to the final report.
_signal_handler_Aborts(signum) ==
    /\ running' = FALSE
    /\ pc' = IF pc = "execute" THEN "final" ELSE pc
    /\ UNCHANGED <<config, counters, handler_installed, locals, reports,
                   exit_code, error>>

\* Variant of _signal_handler: a request that finds running already false
\* ends the process at once.
_signal_handler_ForceQuit(signum) ==
    /\ running' = FALSE
    /\ IF running
          THEN UNCHANGED <<pc, exit_code, error>>
          ELSE /\ pc' = "exit1"
               /\ exit_code' = 1
               /\ error' = "signal"
    /\ UNCHANGED <<config, counters, handler_installed, locals, reports>>

\* Variant of _signal_handler: the handler flips the flag.
_signal_handler_Toggles(signum) ==
    /\ running' = ~running
    /\ UNCHANGED <<pc, config, counters, handler_installed, locals, reports,
                   exit_code, error>>

\* PeriodicRunner._signal_handler, lines 36-39.  It runs between two steps
\* of the main flow and returns to where the main flow was.
_signal_handler(signum) ==
    /\ running' = FALSE
    /\ UNCHANGED <<pc, config, counters, handler_installed, locals, reports,
                   exit_code, error>>

\* Delivery of a termination request to the installed handler.
Signal(signum) ==
    /\ handler_installed
    /\ pc \notin TerminalPcs
    /\ signals < MaxSignals
    /\ _signal_handler(signum)
    /\ signals' = signals + 1
    /\ stop_pc' = IF Stopped THEN stop_pc ELSE pc
    /\ UNCHANGED <<ticks_since_stop, execs_since_stop>>
    /\ UNCHANGED build

\* ------------------------------------------------------------- run()
\* run, lines 95-98: the banner.
run ==
    /\ pc = "run"
    /\ pc' = "loop_guard"
    /\ UNCHANGED <<config, counters, running, handler_installed, locals,
                   reports, exit_code, error, history>>
    /\ UNCHANGED build

\* Variant of LoopGuard: "while True", left only by the break of line 111.
LoopGuard_IgnoresRunning ==
    /\ pc = "loop_guard"
    /\ execution_count < MaxExec
    /\ pc' = "increment"
    /\ UNCHANGED <<config, counters, running, handler_installed, locals,
                   reports, exit_code, error, history>>
    /\ UNCHANGED build

\* run, line 100: while self.running.
LoopGuard ==
    /\ pc = "loop_guard"
    /\ IF running
          THEN /\ execution_count < MaxExec
               /\ pc' = "increment"
          ELSE pc' = "final"
    /\ UNCHANGED <<config, counters, running, handler_installed, locals,
                   reports, exit_code, error, history>>
    /\ UNCHANGED build

\* run, lines 102-103: count the attempt, then call _execute_command.
Increment ==
    /\ pc = "increment"
    /\ execution_count' = execution_count + 1
    /\ pc' = "execute"
    /\ execs_since_stop' = IF Stopped THEN execs_since_stop + 1
                                      ELSE execs_since_stop
    /\ UNCHANGED <<config, success_count, failure_count, running,
                   handler_installed, locals, reports, exit_code, error,
                   signals, stop_pc, ticks_since_stop>>
    /\ UNCHANGED build

\* Variant of ExecuteResult: the except branch returns True.
ExecuteResult_ExceptionIsSuccess(o) == o # "nonzero"

\* Variant of ExecuteResult: the return code test inverted.
ExecuteResult_Inverted(o) == o # "zero"

\* _execute_command, lines 46-65: the value returned for an outcome of
\* subprocess.run.
ExecuteResult(o) == o = "zero"

\* _execute_command, lines 41-65: subprocess.run returns or raises.
_execute_command ==
    /\ pc = "execute"
    /\ \E o \in Outcomes :
          /\ outcome' = o
          /\ success' = ExecuteResult(o)
    /\ pc' = "record"
    /\ UNCHANGED <<config, counters, running, handler_installed,
                   sleep_remaining, reports, exit_code, error, history>>
    /\ UNCHANGED build

\* Variant of Record: a failed execution is not counted.
Record_FailureNotCounted ==
    /\ pc = "record"
    /\ IF success
          THEN /\ success_count' = success_count + 1
               /\ UNCHANGED failure_count
          ELSE UNCHANGED <<success_count, failure_count>>
    /\ pc' = "check"
    /\ UNCHANGED <<config, execution_count, running, handler_installed,
                   locals, reports, exit_code, error, history>>
    /\ UNCHANGED build

\* Variant of Record: a success is added to both counters.
Record_CountsBoth ==
    /\ pc = "record"
    /\ IF success
          THEN /\ success_count' = success_count + 1
               /\ failure_count' = failure_count + 1
          ELSE /\ failure_count' = failure_count + 1
               /\ UNCHANGED success_count
    /\ pc' = "check"
    /\ UNCHANGED <<config, execution_count, running, handler_installed,
                   locals, reports, exit_code, error, history>>
    /\ UNCHANGED build

\* run, lines 105-108: add the outcome to exactly one of the two counters.
Record ==
    /\ pc = "record"
    /\ IF success
          THEN /\ success_count' = success_count + 1
               /\ UNCHANGED failure_count
          ELSE /\ failure_count' = failure_count + 1
               /\ UNCHANGED success_count
    /\ pc' = "check"
    /\ UNCHANGED <<config, execution_count, running, handler_installed,
                   locals, reports, exit_code, error, history>>
    /\ UNCHANGED build

\* Variant of LoopCheck: the break after the execution is missing.
LoopCheck_NeverBreaks ==
    /\ pc = "check"
    /\ pc' = "report"
    /\ UNCHANGED <<config, counters, running, handler_installed, locals,
                   reports, exit_code, error, history>>
    /\ UNCHANGED build

\* run, lines 110-111: if not self.running: break.
LoopCheck ==
    /\ pc = "check"
    /\ pc' = IF running THEN "report" ELSE "final"
    /\ UNCHANGED <<config, counters, running, handler_installed, locals,
                   reports, exit_code, error, history>>
    /\ UNCHANGED build

\* Variant of RateComputed: the guard written as ">= 0".
RateComputed_NonNegative(n) == n >= 0

\* _print_summary, line 81: whether the success rate is computed.
RateComputed(n) == n > 0

\* _print_summary, line 82: the division raises ZeroDivisionError when the
\* rate is computed for execution_count = 0.
SummaryRaises == RateComputed(execution_count) /\ execution_count = 0

\* _print_summary, lines 81-83: the success rate in tenths of a percent,
\* as "{:.1f}" prints it; only computed when execution_count > 0.
SuccessRate(s, n) == ((2000 * s) + n) \div (2 * n)

\* _print_summary, lines 67-91: the payload written for the current state.
\* has_next tells whether next_run was given (interim report) or not (final).
_print_summary(has_next) ==
    [has_next  |-> has_next,
     command   |-> command,
     interval  |-> interval,
     total     |-> execution_count,
     ok        |-> success_count,
     failed    |-> failure_count,
     has_rate  |-> RateComputed(execution_count),
     rate      |-> IF RateComputed(execution_count)
                      THEN SuccessRate(success_count, execution_count)
                      ELSE 0]

\* An exception that leaves run(): main, lines 174-176, prints it and calls
\* sys.exit(1); without main the interpreter ends with the same status.
Raise(what) ==
    /\ pc' = "exit1"
    /\ exit_code' = 1
    /\ error' = what

\* Variant of Report: the summary starts a new statistics period after it
\* has been written.
Report_ResetsCounters ==
    /\ pc = "report"
    /\ reports' = Append(reports, _print_summary(TRUE))
    /\ sleep_remaining' = interval
    /\ pc' = "sleep_guard"
    /\ execution_count' = 0
    /\ success_count' = 0
    /\ failure_count' = 0
    /\ UNCHANGED <<config, running, handler_installed, outcome, success,
                   exit_code, error, history>>
    /\ UNCHANGED build

\* run, lines 113-121: interim report, then set up the sleep.  The sink
\* either takes the report or raises out of _print_summary.
Report ==
    /\ pc = "report"
    /\ \E sink_ok \in BOOLEAN :
          IF SummaryRaises
             THEN /\ Raise("zero_division")
                  /\ UNCHANGED <<reports, sleep_remaining>>
          ELSE IF sink_ok
             THEN /\ reports' = Append(reports, _print_summary(TRUE))
                  /\ sleep_remaining' = interval
                  /\ pc' = "sleep_guard"
                  /\ UNCHANGED <<exit_code, error>>
             ELSE /\ Raise("report")
                  /\ UNCHANGED <<reports, sleep_remaining>>
    /\ UNCHANGED <<config, counters, running, handler_installed, outcome,
                   success, history>>
    /\ UNCHANGED build

\* Variant of SleepGuard: the sleep loop does not look at self.running.
SleepGuard_IgnoresRunning ==
    /\ pc = "sleep_guard"
    /\ pc' = IF sleep_remaining > 0 THEN "sleeping" ELSE "loop_guard"
    /\ UNCHANGED <<config, counters, running, handler_installed, locals,
                   reports, exit_code, error, history>>
    /\ UNCHANGED build

\* run, line 122: while sleep_remaining > 0 and self.running.
SleepGuard ==
    /\ pc = "sleep_guard"
    /\ pc' = IF sleep_remaining > 0 /\ running THEN "sleeping"
                                                ELSE "loop_guard"
    /\ UNCHANGED <<config, counters, running, handler_installed, locals,
                   reports, exit_code, error, history>>
    /\ UNCHANGED build

\* run, lines 123-125: one tick of at most TickSeconds.  A signal handled
\* during time.sleep does not cut the tick short (the sleep is resumed).
SleepTick ==
    /\ pc = "sleeping"
    /\ LET sleep_time == Min(TickSeconds, sleep_remaining)
       IN  sleep_remaining' = sleep_remaining - sleep_time
    /\ pc' = "sleep_guard"
    /\ ticks_since_stop' = IF Stopped THEN ticks_since_stop + 1
                                      ELSE ticks_since_stop
    /\ UNCHANGED <<config, counters, running, handler_installed, outcome,
                   success, reports, exit_code, error, signals, stop_pc,
                   execs_since_stop>>
    /\ UNCHANGED build

\* run, lines 127-129, then the normal return of main: the final report.
Final ==
    /\ pc = "final"
    /\ \E sink_ok \in BOOLEAN :
          IF SummaryRaises
             THEN /\ Raise("zero_division")
                  /\ UNCHANGED reports
          ELSE IF sink_ok
             THEN /\ reports' = Append(reports, _print_summary(FALSE))
                  /\ pc' = "done"
                  /\ UNCHANGED <<exit_code, error>>
             ELSE /\ Raise("final_report")
                  /\ UNCHANGED reports
    /\ UNCHANGED <<config, counters, running, handler_installed, locals,
                   history>>
    /\ UNCHANGED build

\* ------------------------------------------------------------------ Next
Next ==
    \/ main
    \/ \E signum \in Signals : DefaultSignal(signum)
    \/ PeriodicRunner__init__
    \/ \E signum \in Signals : Signal(signum)
    \/ run
    \/ LoopGuard
    \/ Increment
    \/ _execute_command
    \/ Record
    \/ LoopCheck
    \/ Report
    \/ SleepGuard
    \/ SleepTick
    \/ Final

Spec == Init /\ [][Next]_vars

\* ------------------------------------------------------------ typing
TypeOK ==
    /\ entry \in Entries
    /\ args \in [command : Commands, interval : Intervals]
    /\ pc \in {"main", "construct", "run", "final"} \cup LoopPcs
              \cup TerminalPcs
    /\ command \in Commands \cup {NoCommand}
    /\ interval \in Intervals
    /\ start_time \in {NoTime, ConstructionTime}
    /\ execution_count \in 0..MaxExec
    /\ success_count \in 0..MaxExec
    /\ failure_count \in 0..MaxExec
    /\ running \in BOOLEAN
    /\ handler_installed \in BOOLEAN
    /\ outcome \in Outcomes \cup {"none"}
    /\ success \in BOOLEAN
    /\ sleep_remaining \in Intervals
    /\ Len(reports) <= MaxExec + 1
    /\ exit_code \in {0, 1} \cup {0 - s : s \in Signals}
    /\ error \in {"none", "usage", "signal", "report", "final_report",
                  "zero_division"}
    /\ signals \in 0..MaxSignals
    /\ stop_pc \in {"none", "run", "final"} \cup LoopPcs

\* ------------------------------------------------------------ helpers
\* The main flow has reached line 100 at least once.
LoopStarted ==
    \/ pc \in LoopPcs \cup {"final", "done"}
    \/ pc = "exit1" /\ error \in {"report", "final_report", "zero_division"}

\* The loop of run() has been left (normally or by an exception).
LoopExited ==
    \/ pc \in {"final", "done"}
    \/ pc = "exit1" /\ error \in {"report", "final_report", "zero_division"}

\* An execution has been counted and its outcome is not recorded yet.
InFlight == pc \in {"execute", "record"}

\* The run was started by main(), which only constructs with interval > 0.
CliRun == entry = "cli"

FinalReports ==
    Cardinality({i \in 1..Len(reports) : ~reports[i].has_next})

\* ------------------------------------------------------------------- C1
\* C1 (as claimed): at every point after the loop of run() has started,
\* success_count + failure_count = execution_count (stated for runs that
\* main() started with a valid interval).
C1_CountersAlwaysBalanced ==
    (CliRun /\ LoopStarted) => success_count + failure_count = execution_count

\* C1 (amended): after the loop has started the counters balance at every
\* point except between the increment of execution_count (line 102) and
\* the recording of the outcome (lines 105-108), where execution_count is
\* exactly one ahead.
C1_CountersBalancedOutsideExecution ==
    LoopStarted =>
        execution_count - (success_count + failure_count)
            = IF InFlight THEN 1 ELSE 0

\* A termination request is handled while the second execution is in flight.
C1_Witness ==
    /\ pc = "execute"
    /\ stop_pc = "execute"
    /\ execution_count = 2
    /\ success_count + failure_count = 1

\* ------------------------------------------------------------------- C2
\* C2: once main() has entered the loop, the process ends with exactly one
\* final status report written, whenever the termination request came and
\* also when an error left the loop (a fault while writing the final report
\* itself set aside).
C2_FinalReportExactlyOnce ==
    /\ FinalReports <= 1
    /\ (CliRun /\ pc \in TerminalPcs /\ LoopStarted
           /\ error # "final_report")
          => FinalReports = 1

\* ------------------------------------------------------------------- C3
\* C3: a termination request that arrives while the loop sleeps is followed
\* by at most one more completed sleep tick and by no further execution;
\* the main flow only moves on to the loop guard and the final report.
C3_SleepStopWithinOneTick ==
    stop_pc \in {"sleep_guard", "sleeping"} =>
        /\ ticks_since_stop <= 1
        /\ execs_since_stop = 0
        /\ pc \in {"sleep_guard", "sleeping", "loop_guard", "final",
                   "done", "exit1"}
        /\ (stop_pc = "sleep_guard" => ticks_since_stop = 0)

\* Stopped in the first tick of a longer sleep; the loop has ended with
\* sleep time left over.
C3_Witness ==
    /\ stop_pc = "sleeping"
    /\ pc = "done"
    /\ interval > 1
    /\ sleep_remaining = interval - 1
    /\ ticks_since_stop = 1

\* ------------------------------------------------------------------- C4
\* C4: a termination request that arrives while an execution is in flight
\* does not move the main flow; the loop is left only after that execution
\* has returned and has been added to success_count or failure_count, and
\* no other execution is started.
C4_InFlightExecutionCompletes ==
    stop_pc = "execute" =>
        /\ execs_since_stop = 0
        /\ \/ pc \in {"execute", "record"}
           \/ /\ pc \in {"check", "final", "done", "exit1"}
              /\ success_count + failure_count = execution_count

\* Stopped during the second execution, whose failure is in the final state.
C4_Witness ==
    /\ stop_pc = "execute"
    /\ pc = "done"
    /\ execution_count = 2
    /\ success_count = 1
    /\ failure_count = 1
    /\ outcome = "nonzero"

\* ------------------------------------------------------------------- C5
\* C5: a supervisor is constructed only with interval > 0; construction
\* with interval <= 0 does not yield a supervisor.
C5_ConstructionValidatesInterval ==
    handler_installed => interval > 0

\* ------------------------------------------------------------------- C6
\* C6: when main() is given interval <= 0 the process never constructs a
\* supervisor, never enters the loop, never counts an execution, and if it
\* has ended its exit status is non-zero.
C6_BadIntervalNeverExecutes ==
    (entry = "cli" /\ args.interval <= 0) =>
        /\ execution_count = 0
        /\ ~handler_installed
        /\ ~LoopStarted
        /\ pc \in {"main", "exit1", "killed"}
        /\ (pc \in TerminalPcs => exit_code # 0)

\* main() has rejected interval 0.
C6_Witness ==
    /\ entry = "cli"
    /\ args.interval = 0
    /\ pc = "exit1"
    /\ error = "usage"
    /\ exit_code = 1

\* ------------------------------------------------------------------- C7
\* C7: a non-zero exit status and an executor exception both come back from
\* _execute_command as False; recording either adds one to failure_count,
\* leaves success_count and execution_count alone and goes on to the
\* running check, which continues with the interim report while running
\* is true.
C7_FailuresCountedAlike ==
    /\ [](pc = "record" /\ outcome \in {"nonzero", "exception"} => ~success)
    /\ [][/\ (pc = "record" /\ pc' # "record"
                 /\ outcome \in {"nonzero", "exception"})
             => /\ failure_count' = failure_count + 1
                /\ success_count' = success_count
                /\ execution_count' = execution_count
                /\ pc' = "check"
          /\ (pc = "check" /\ pc' # "check" /\ running) => pc' = "report"
         ]_vars

\* A second execution is in flight after the first ended with an exception
\* and was counted as the only failure.
C7_Witness ==
    /\ pc = "execute"
    /\ outcome = "exception"
    /\ execution_count = 2
    /\ failure_count = 1
    /\ success_count = 0
    /\ running

\* ------------------------------------------------------------------- C8
\* C8: in a run started by main(), a fault of the sink while an interim
\* status report is written never ends the process: the loop is not left
\* through that fault.
C8_ReportFaultDoesNotAbortLoop ==
    CliRun => ~(pc = "exit1" /\ error = "report")

\* ------------------------------------------------------------------- C9
\* C9: a termination request delivered after the first one changes nothing
\* of the program's state: position, configuration, counters, running,
\* locals, reports and exit status stay as they were.
C9_RepeatedStopIsNoOp ==
    [][(signals' > signals /\ signals >= 1)
          => UNCHANGED <<pc, config, counters, running, handler_installed,
                         locals, reports, exit_code, error>>]_vars

\* A second request arrived while an execution was in flight.
C9_Witness ==
    /\ signals = 2
    /\ stop_pc = "increment"
    /\ pc = "execute"
    /\ ~running

\* ------------------------------------------------------------------ C10
\* C10: running is true after construction, becomes false only in a step of
\* the signal handler, and once false stays false; the steps of the loop
\* leave it as it is.
C10_RunningMonotonic ==
    [][/\ (~handler_installed /\ handler_installed') => running'
       /\ (handler_installed /\ ~running) => ~running'
       /\ (handler_installed /\ running' # running)
             => (signals' = signals + 1 /\ pc' = pc)
      ]_vars

\* The handler cleared running and the loop has read it at the sleep guard.
C10_Witness ==
    /\ handler_installed
    /\ ~running
    /\ signals = 1
    /\ stop_pc = "sleep_guard"
    /\ pc = "loop_guard"

\* ------------------------------------------------------------ helpers
InterimReports ==
    Cardinality({i \in 1..Len(reports) : reports[i].has_next})

\* The value execution_count had at the first termination request.
ExecAtStop == execution_count - execs_since_stop

\* ------------------------------------------------------------------ C11
\* C11: when the first termination request arrives after the first
\* execution has started and before the loop guard is passed a second time,
\* the run ends with execution_count = 1, and with success_count = 1,
\* failure_count = 0 if the command exited 0, success_count = 0,
\* failure_count = 1 if it exited non-zero.
C11_StopAfterFirstExecution ==
    (/\ stop_pc \in LoopPcs \ {"increment"}
     /\ ExecAtStop = 1
     /\ pc \in {"final", "done", "exit1"})
    => /\ execution_count = 1
       /\ (outcome = "zero" => success_count = 1 /\ failure_count = 0)
       /\ (outcome = "nonzero" => success_count = 0 /\ failure_count = 1)

\* Stopped during the sleep after a first execution that exited non-zero.
C11_Witness ==
    /\ stop_pc = "sleeping"
    /\ ExecAtStop = 1
    /\ pc = "done"
    /\ outcome = "nonzero"
    /\ failure_count = 1

\* ------------------------------------------------------------------ C12
\* C12: every status report written carries a success rate exactly when
\* its execution count is positive, and no report is lost to a division by
\* zero; the final report of a run without executions has no rate.
C12_RateOnlyWithExecutions ==
    /\ error # "zero_division"
    /\ \A i \in 1..Len(reports) :
          /\ reports[i].has_rate <=> reports[i].total > 0
          /\ reports[i].total = 0 => ~reports[i].has_next

\* A run stopped before its first execution has written its final report.
C12_Witness ==
    /\ pc = "done"
    /\ execution_count = 0
    /\ Len(reports) = 1
    /\ ~reports[1].has_rate
    /\ ~reports[1].has_next

\* ------------------------------------------------------------------ C13
\* C13: execution_count only changes by +1, in the step from line 102 into
\* the executor; success_count and failure_count only change in the step
\* that records a returned execution, where exactly one of them grows by
\* one; so execution_count is one ahead of their sum exactly while an
\* execution is in flight, and no counter ever decreases.
C13_CountersStepByStep ==
    /\ [](handler_installed =>
             /\ execution_count - (success_count + failure_count) \in {0, 1}
             /\ InFlight <=>
                   execution_count = success_count + failure_count + 1)
    /\ [][handler_installed =>
            /\ execution_count' >= execution_count
            /\ success_count' >= success_count
            /\ failure_count' >= failure_count
            /\ execution_count' # execution_count =>
                  /\ execution_count' = execution_count + 1
                  /\ pc = "increment" /\ pc' = "execute"
                  /\ UNCHANGED <<success_count, failure_count>>
            /\ <<success_count, failure_count>>' # <<success_count, failure_count>>
                  => /\ pc = "record" /\ pc' = "check"
                     /\ (success_count' + failure_count')
                           = (success_count + failure_count) + 1
                     /\ UNCHANGED execution_count
         ]_vars

\* The third execution is in flight after one success and one failure.
C13_Witness ==
    /\ pc = "record"
    /\ execution_count = 3
    /\ success_count = 1
    /\ failure_count = 1

\* ------------------------------------------------------------------ C14
\* C14: when running is false at the check of line 110, the step leaves the
\* loop for the final report without writing a report or touching the
\* sleep; a request that arrives between the start of an execution and
\* that check is followed by no interim report and no sleep tick.
C14_BreakBeforeReportAndSleep ==
    /\ [](stop_pc \in {"execute", "record", "check"} =>
             /\ ticks_since_stop = 0
             /\ pc \in {"execute", "record", "check", "final", "done",
                        "exit1"}
             /\ InterimReports = execution_count - 1
             /\ (pc = "done" => ~reports[Len(reports)].has_next))
    /\ [][(pc = "check" /\ pc' # "check" /\ ~running) =>
             /\ pc' = "final"
             /\ UNCHANGED <<reports, sleep_remaining>>
         ]_vars

\* Stopped while the second outcome was being recorded: one interim report
\* (after the first execution), then the final one.
C14_Witness ==
    /\ stop_pc = "record"
    /\ pc = "done"
    /\ execution_count = 2
    /\ Len(reports) = 2
    /\ reports[1].has_next
    /\ ~reports[2].has_next

\* ------------------------------------------------------------------ C15
\* C15 (safety half): in a run started by main(), the loop of run() is not
\* left as long as no termination request has been delivered.
C15_NoExitWithoutRequest ==
    (CliRun /\ signals = 0) => ~LoopExited

\* ------------------------------------------------------------------ C16
\* C16: sleep_remaining is never negative, and while no termination request
\* has arrived an execution after the first starts only with
\* sleep_remaining = 0 and after exactly one interim report per earlier
\* execution.
C16_SleepCountsDownToZero ==
    handler_installed =>
        /\ sleep_remaining >= 0
        /\ pc \in {"sleep_guard", "sleeping"} => sleep_remaining <= interval
        /\ (pc = "increment" /\ execution_count >= 1 /\ ~Stopped) =>
              /\ sleep_remaining = 0
              /\ InterimReports = execution_count

\* ------------------------------------------------------------------ C17
\* C17: a step that writes a status report, interim or final, leaves
\* command, interval, start_time, the three counters and running unchanged.
C17_ReportChangesNoState ==
    [][reports' # reports =>
          /\ UNCHANGED <<command, interval, start_time, execution_count,
                         success_count, failure_count, running>>
          /\ reports' = Append(reports, _print_summary(pc = "report"))
      ]_vars

\* Two interim reports and the final report have been written.
C17_Witness ==
    /\ Len(reports) = 3
    /\ ~reports[3].has_next
    /\ reports[3].total = 2
    /\ start_time = ConstructionTime
    /\ execution_count = 2

\* ------------------------------------------------------------------ C18
\* C18: after the first termination request at most one more execution is
\* started, and only when the request arrived between the guard of line
\* 100 and the increment of line 102.
C18_AtMostOneExecutionAfterStop ==
    /\ execs_since_stop <= 1
    /\ execs_since_stop = 1 => stop_pc = "increment"

\* The request came after the guard had been passed for the second time;
\* the second execution still ran.
C18_Witness ==
    /\ stop_pc = "increment"
    /\ execs_since_stop = 1
    /\ execution_count = 2
    /\ pc = "done"

\* ------------------------------------------------------------------ C19
\* C19: every status report written, interim or final, shows counters with
\* successful + failed = total.
C19_ReportsShowBalancedCounters ==
    \A i \in 1..Len(reports) :
        reports[i].ok + reports[i].failed = reports[i].total

\* A final report after a request that arrived during an execution.
C19_Witness ==
    /\ stop_pc = "execute"
    /\ Len(reports) = 2
    /\ ~reports[2].has_next
    /\ reports[2].total = 2
    /\ reports[2].ok = 2

\* ======================================================================
\* scripts/build_nuget.py: build_nuget_packages(version)
\* ======================================================================
Versions == {"1.0.0", "1.0.0-rc.9"}
ScriptDirs == {"scripts", "tools"}
PackResults == {"ok", "failed", "error"}

\* The runner is not the program that runs.
RunnerIdle ==
    /\ entry = "cli"
    /\ args = [command |-> "exit 0", interval |-> 1]
    /\ pc = "idle"
    /\ command = NoCommand
    /\ interval = 0
    /\ start_time = NoTime
    /\ execution_count = 0
    /\ success_count = 0
    /\ failure_count = 0
    /\ running = FALSE
    /\ handler_installed = FALSE
    /\ outcome = "none"
    /\ success = FALSE
    /\ sleep_remaining = 0
    /\ reports = <<>>
    /\ exit_code = 0
    /\ error = "none"
    /\ signals = 0
    /\ stop_pc = "none"
    /\ ticks_since_stop = 0
    /\ execs_since_stop = 0

runner == <<entry, args, pc, command, interval, start_time, execution_count,
            success_count, failure_count, running, handler_installed,
            outcome, success, sleep_remaining, reports, exit_code, error,
            signals, stop_pc, ticks_since_stop, execs_since_stop>>

\* The call build_nuget_packages(version) in some state of the file system.
BuildInit ==
    /\ RunnerIdle
    /\ b_pc = "resolve"
    /\ version \in Versions
    /\ script_dir \in ScriptDirs
    /\ repo_root = ""
    /\ core_exists \in BOOLEAN
    /\ sdk_exists \in BOOLEAN
    /\ mkdir_ok \in BOOLEAN
    /\ invoked = <<>>
    /\ cmd_results = <<>>
    /\ returned = "none"

\* build_nuget_packages returns a value.
Return(value) ==
    /\ b_pc' = "returned"
    /\ returned' = value

\* build_nuget_packages, lines 89-100: find the repository root.
ResolvePaths ==
    /\ b_pc = "resolve"
    /\ repo_root' = IF script_dir = "scripts" THEN "parent" ELSE script_dir
    /\ b_pc' = "verify_core"
    /\ UNCHANGED <<version, script_dir, core_exists, sdk_exists, mkdir_ok,
                   invoked, cmd_results, returned, runner>>

\* build_nuget_packages, lines 103-105.
VerifyCore ==
    /\ b_pc = "verify_core"
    /\ IF ~core_exists
          THEN Return("False")
          ELSE b_pc' = "verify_sdk" /\ UNCHANGED returned
    /\ UNCHANGED <<version, script_dir, repo_root, core_exists, sdk_exists,
                   mkdir_ok, invoked, cmd_results, runner>>

\* build_nuget_packages, lines 107-109.
VerifySdk ==
    /\ b_pc = "verify_sdk"
    /\ IF ~sdk_exists
          THEN Return("False")
          ELSE b_pc' = "mkdir" /\ UNCHANGED returned
    /\ UNCHANGED <<version, script_dir, repo_root, core_exists, sdk_exists,
                   mkdir_ok, invoked, cmd_results, runner>>

\* ensure_output_directory, lines 59-75, called at lines 115-116: any
\* exception of mkdir is caught and turned into False.
ensure_output_directory ==
    /\ b_pc = "mkdir"
    /\ IF ~mkdir_ok
          THEN Return("False")
          ELSE b_pc' = "pack_core" /\ UNCHANGED returned
    /\ UNCHANGED <<version, script_dir, repo_root, core_exists, sdk_exists,
                   mkdir_ok, invoked, cmd_results, runner>>

\* run_command, lines 37-56: True when the command exits 0, False on
\* CalledProcessError; any other exception of subprocess.run is not caught.
run_command(result) == result = "ok"

\* Variant of PackCore: the failure of the first pack command is reported
\* but the function goes on.
PackCore_GoesOnAfterFailure ==
    /\ b_pc = "pack_core"
    /\ \E result \in PackResults :
          /\ invoked' = Append(invoked, "Xping.Sdk.Core")
          /\ cmd_results' = Append(cmd_results, result)
          /\ IF result = "error"
                THEN b_pc' = "raised" /\ returned' = "raised"
                ELSE b_pc' = "pack_sdk" /\ UNCHANGED returned
    /\ UNCHANGED <<version, script_dir, repo_root, core_exists, sdk_exists,
                   mkdir_ok, runner>>

\* build_nuget_packages, lines 123-132: dotnet pack of Xping.Sdk.Core.
PackCore ==
    /\ b_pc = "pack_core"
    /\ \E result \in PackResults :
          /\ invoked' = Append(invoked, "Xping.Sdk.Core")
          /\ cmd_results' = Append(cmd_results, result)
          /\ IF result = "error"
                THEN b_pc' = "raised" /\ returned' = "raised"
                ELSE IF ~run_command(result)
                        THEN Return("False")
                        ELSE b_pc' = "pack_sdk" /\ UNCHANGED returned
    /\ UNCHANGED <<version, script_dir, repo_root, core_exists, sdk_exists,
                   mkdir_ok, runner>>

\* build_nuget_packages, lines 139-148: dotnet pack of Xping.Sdk.
PackSdk ==
    /\ b_pc = "pack_sdk"
    /\ \E result \in PackResults :
          /\ invoked' = Append(invoked, "Xping.Sdk")
          /\ cmd_results' = Append(cmd_results, result)
          /\ IF result = "error"
                THEN b_pc' = "raised" /\ returned' = "raised"
                ELSE IF ~run_command(result)
                        THEN Return("False")
                        ELSE b_pc' = "list" /\ UNCHANGED returned
    /\ UNCHANGED <<version, script_dir, repo_root, core_exists, sdk_exists,
                   mkdir_ok, runner>>

\* build_nuget_packages, lines 150-175: list the packages (missing ones
\* only give a warning) and return True.
ListPackages ==
    /\ b_pc = "list"
    /\ Return("True")
    /\ UNCHANGED <<version, script_dir, repo_root, core_exists, sdk_exists,
                   mkdir_ok, invoked, cmd_results, runner>>

BuildNext ==
    \/ ResolvePaths
    \/ VerifyCore
    \/ VerifySdk
    \/ ensure_output_directory
    \/ PackCore
    \/ PackSdk
    \/ ListPackages

BuildSpec == BuildInit /\ [][BuildNext]_vars

\* ------------------------------------------------------------------ C20
\* C20: build_nuget_packages stops at the first error: the Xping.Sdk pack
\* command is invoked only as the second command and after the
\* Xping.Sdk.Core pack succeeded, no pack command is invoked when a
\* project file is missing or the output directory cannot be made, nothing
\* is invoked after a command that did not succeed, and True is returned
\* only after both pack commands succeeded.
C20_BuildStopsOnFirstError ==
    /\ \A i \in 1..Len(invoked) :
          invoked[i] = "Xping.Sdk" =>
             /\ i = 2
             /\ invoked[1] = "Xping.Sdk.Core"
             /\ cmd_results[1] = "ok"
    /\ (~core_exists \/ ~sdk_exists \/ ~mkdir_ok) => invoked = <<>>
    /\ \A i \in 1..Len(invoked) : cmd_results[i] # "ok" => i = Len(invoked)
    /\ returned = "True" =>
          /\ invoked = <<"Xping.Sdk.Core", "Xping.Sdk">>
          /\ cmd_results = <<"ok", "ok">>
    /\ (returned = "False" /\ invoked # <<>>)
          => cmd_results[Len(cmd_results)] = "failed"

\* The core pack succeeded, the sdk pack failed, and False was returned.
C20_Witness ==
    /\ b_pc = "returned"
    /\ returned = "False"
    /\ invoked = <<"Xping.Sdk.Core", "Xping.Sdk">>
    /\ cmd_results = <<"ok", "failed">>
====
